---- MODULE Spec2Model ----
(***************************************************************************)
(* Model of the ABCU advising program (CS300_Portfolio/ProjectTwo_Code.cpp) *)
(* : the CourseBST ordered store and the CoursePlanner catalog built on it. *)
(*                                                                          *)
(* A std::string is a sequence of one-character strings, so that trimming,  *)
(* upper-casing, comma splitting and lexicographic comparison are computed  *)
(* character by character as the code does.  A Node* is either <<>>         *)
(* (nullptr) or the triple <<left, course, right>>.                         *)
(***************************************************************************)
EXTENDS Integers, Sequences, FiniteSets

\* ---------------------------------------------------------------- bounds
\* Largest number of lines in a course file.
MaxRows == 2

\* ------------------------------------------------------ string helpers
\* unsigned char value of each character of the model's alphabet
Code(ch) ==
  CASE ch = " " -> 32
    [] ch = "," -> 44
    [] ch = "A" -> 65
    [] ch = "B" -> 66
    [] ch = "C" -> 67
    [] ch = "a" -> 97
    [] ch = "b" -> 98
    [] ch = "c" -> 99
    [] ch = "t" -> 116
    [] ch = "u" -> 117
    [] ch = "v" -> 118

isspace(ch) == ch = " "

toupper(ch) ==
  CASE ch = "a" -> "A"
    [] ch = "b" -> "B"
    [] ch = "c" -> "C"
    [] ch = "t" -> "T"
    [] ch = "u" -> "U"
    [] ch = "v" -> "V"
    [] OTHER -> ch

\* first index b with s[b] not a space (Len(s)+1 when there is none)
RECURSIVE TrimBegin(_, _)
TrimBegin(s, b) ==
  IF b <= Len(s) /\ isspace(s[b]) THEN TrimBegin(s, b + 1) ELSE b

\* last index e >= b-1 with s[e] not a space
RECURSIVE TrimEnd(_, _, _)
TrimEnd(s, b, e) ==
  IF e >= b /\ isspace(s[e]) THEN TrimEnd(s, b, e - 1) ELSE e

trimCopy(s) ==
  LET b == TrimBegin(s, 1)
      e == TrimEnd(s, b, Len(s))
  IN  SubSeq(s, b, e)

toUpperInPlace(s) == [i \in 1..Len(s) |-> toupper(s[i])]

\* index of the first ',' at or after position i, 0 when there is none
RECURSIVE FindComma(_, _)
FindComma(s, i) ==
  IF i > Len(s) THEN 0
  ELSE IF s[i] = "," THEN i
  ELSE FindComma(s, i + 1)

\* std::getline(iss, cur, ',') in a loop: a read that extracts nothing at end
\* of input fails, so no field is produced after a trailing comma
RECURSIVE splitCSV(_)
splitCSV(line) ==
  IF Len(line) = 0 THEN << >>
  ELSE LET k == FindComma(line, 1)
       IN  IF k = 0 THEN << trimCopy(line) >>
           ELSE << trimCopy(SubSeq(line, 1, k - 1)) >>
                \o splitCSV(SubSeq(line, k + 1, Len(line)))

\* std::string operator< : lexicographic over unsigned character codes
RECURSIVE StrLess(_, _)
StrLess(a, b) ==
  IF Len(b) = 0 THEN FALSE
  ELSE IF Len(a) = 0 THEN TRUE
  ELSE IF Code(a[1]) < Code(b[1]) THEN TRUE
  ELSE IF Code(a[1]) > Code(b[1]) THEN FALSE
  ELSE StrLess(Tail(a), Tail(b))

\* ---------------------------------------------------------- domain model
Course(number, title, prereqs) ==
  [number |-> number, title |-> title, prereqs |-> prereqs]

nullptr == << >>

Node(c) == << nullptr, c, nullptr >>

\* -------------------------------------------------------------- CourseBST
\* an insert that assigns the title of an existing node but keeps its prereqs
RECURSIVE insertOrAssignImplTitleOnly(_, _)
insertOrAssignImplTitleOnly(n, c) ==
  IF n = nullptr THEN [n |-> Node(c), added |-> 1]
  ELSE IF StrLess(c.number, n[2].number) THEN
         LET r == insertOrAssignImplTitleOnly(n[1], c)
         IN  [n |-> << r.n, n[2], n[3] >>, added |-> r.added]
  ELSE IF StrLess(n[2].number, c.number) THEN
         LET r == insertOrAssignImplTitleOnly(n[3], c)
         IN  [n |-> << n[1], n[2], r.n >>, added |-> r.added]
  ELSE [n |-> << n[1], [n[2] EXCEPT !.title = c.title], n[3] >>,
        added |-> 0]

\* insertOrAssignImpl(Node*& n, const Course& c): the subtree that n refers
\* to afterwards, and in added how much count_ grew
RECURSIVE insertOrAssignImpl(_, _)
insertOrAssignImpl(n, c) ==
  IF n = nullptr THEN [n |-> Node(c), added |-> 1]
  ELSE IF StrLess(c.number, n[2].number) THEN
         LET r == insertOrAssignImpl(n[1], c)
         IN  [n |-> << r.n, n[2], n[3] >>, added |-> r.added]
  ELSE IF StrLess(n[2].number, c.number) THEN
         LET r == insertOrAssignImpl(n[3], c)
         IN  [n |-> << n[1], n[2], r.n >>, added |-> r.added]
  ELSE [n |-> << n[1],
                 [n[2] EXCEPT !.title = c.title, !.prereqs = c.prereqs],
                 n[3] >>,
        added |-> 0]

\* a find that descends into the wrong subtree
RECURSIVE findWrongSide(_, _)
findWrongSide(cur, number) ==
  IF cur = nullptr THEN << >>
  ELSE IF number = cur[2].number THEN << cur[2] >>
  ELSE IF StrLess(number, cur[2].number) THEN findWrongSide(cur[3], number)
  ELSE findWrongSide(cur[1], number)

\* CourseBST::find from node cur: << course >> when found, << >> for nullptr
RECURSIVE find(_, _)
find(cur, number) ==
  IF cur = nullptr THEN << >>
  ELSE IF number = cur[2].number THEN << cur[2] >>
  ELSE IF StrLess(number, cur[2].number) THEN find(cur[1], number)
  ELSE find(cur[3], number)

\* a traversal that visits the node before its left subtree
RECURSIVE inOrderImplPre(_)
inOrderImplPre(n) ==
  IF n = nullptr THEN << >>
  ELSE << n[2] >> \o inOrderImplPre(n[1]) \o inOrderImplPre(n[3])

\* the courses in the order inOrderImpl hands them to fn
RECURSIVE inOrderImpl(_)
inOrderImpl(n) ==
  IF n = nullptr THEN << >>
  ELSE inOrderImpl(n[1]) \o << n[2] >> \o inOrderImpl(n[3])

\* ---------------------------------------------------------- CoursePlanner
VARIABLES
  tree_,         \* CourseBST::root_ with the nodes reachable from it
  count_,        \* CourseBST::count_
  index_,        \* unordered_map courseNum -> title
  loaded_,       \* CoursePlanner::loaded_
  lastFilename_, \* CoursePlanner::lastFilename_
  lines,         \* the lines std::getline delivered in the latest load that opened its file
  out            \* what the latest call reported to its caller and the console

vars == << tree_, count_, index_, loaded_, lastFilename_, lines, out >>

\* the files of the environment: one that opens and one that does not
Filenames == { "courses.csv", "missing.csv" }

is_open(filename) == filename = "courses.csv"

\* the lines a course file may hold
Lines ==
  { << "A", ",", "t" >>,
    << "a", " ", ",", "u", ",", "C" >>,
    << "C", ",", "v", ",", ",", "a", ",", "B" >>,
    << ",", "t" >>,
    << "B", "," >>,
    << " " >> }

RECURSIVE SeqsUpTo(_, _)
SeqsUpTo(S, n) ==
  IF n = 0 THEN { << >> }
  ELSE LET shorter == SeqsUpTo(S, n - 1)
       IN  shorter \cup { Append(q, x) : q \in shorter, x \in S }

Files == SeqsUpTo(Lines, MaxRows)

\* what the user may type at the course-number prompt
RawNumbers ==
  { << >>,
    << " " >>,
    << "A" >>,
    << " ", "a", " " >>,
    << "c" >>,
    << "B" >> }

\* the prerequisites of a row: parts[2..], upper-cased, empty ones dropped
RECURSIVE Prereqs(_, _)
Prereqs(parts, i) ==
  IF i > Len(parts) THEN << >>
  ELSE LET p == toUpperInPlace(parts[i])
       IN  (IF p # << >> THEN << p >> ELSE << >>) \o Prereqs(parts, i + 1)

\* the Course built from the parts of a line
MakeCourse(parts) ==
  Course(toUpperInPlace(parts[1]), parts[2], Prereqs(parts, 3))

index_assign(index, number, title) ==
  [k \in (DOMAIN index) \cup {number} |->
     IF k = number THEN title ELSE index[k]]

\* a pass that files the title under the number as written in the file
LoadLineRawIndex(st, line) ==
  LET trimmed == trimCopy(line)
      parts   == splitCSV(trimmed)
  IN  IF trimmed = << >> THEN st
      ELSE IF Len(parts) < 2 THEN [st EXCEPT !.skipped = @ + 1]
      ELSE LET c == MakeCourse(parts)
               r == insertOrAssignImpl(st.tree, c)
           IN  [tree    |-> r.n,
                count   |-> st.count + r.added,
                index   |-> index_assign(st.index, parts[1], c.title),
                loaded  |-> st.loaded + 1,
                skipped |-> st.skipped]

\* one pass of the while loop of loadFromFile over one line
LoadLine(st, line) ==
  LET trimmed == trimCopy(line)
      parts   == splitCSV(trimmed)
  IN  IF trimmed = << >> THEN st
      ELSE IF Len(parts) < 2 THEN [st EXCEPT !.skipped = @ + 1]
      ELSE LET c == MakeCourse(parts)
               r == insertOrAssignImpl(st.tree, c)
           IN  [tree    |-> r.n,
                count   |-> st.count + r.added,
                index   |-> index_assign(st.index, c.number, c.title),
                loaded  |-> st.loaded + 1,
                skipped |-> st.skipped]

\* the store and the counters after the first k lines of content
RECURSIVE LoadLoop(_, _, _)
LoadLoop(st, content, k) ==
  IF k = 0 THEN st
  ELSE LoadLine(LoadLoop(st, content, k - 1), content[k])

\* tree_.clearAll(); index_.clear(); loaded = 0; skipped = 0
Cleared ==
  [tree |-> nullptr, count |-> 0, index |-> << >>, loaded |-> 0, skipped |-> 0]

\* lines 157-196 of loadFromFile for each file content: the store, the index
\* and the counters when the while loop ends
LoadResult ==
  [content \in Files |-> LoadLoop(Cleared, content, Len(content))]

Output(op, status) ==
  [op |-> op, status |-> status, raw |-> << >>, number |-> << >>,
   title |-> << >>, items |-> << >>, total |-> 0, loaded |-> 0, skipped |-> 0]

Init ==
  /\ tree_ = nullptr
  /\ count_ = 0
  /\ index_ = << >>
  /\ loaded_ = FALSE
  /\ lastFilename_ = ""
  /\ lines = << >>
  /\ out = Output("none", "none")

\* the end of a loadFromFile that opened its file and read content: st is
\* the store, the index and the counters after the while loop
Finish(filename, content, st) ==
  /\ lines' = content
  /\ tree_' = st.tree
  /\ count_' = st.count
  /\ index_' = st.index
  /\ IF st.loaded = 0
     THEN /\ out' = [Output("load", "NoValidRecords")
                       EXCEPT !.skipped = st.skipped]
          /\ UNCHANGED << loaded_, lastFilename_ >>
     ELSE /\ loaded_' = TRUE
          /\ lastFilename_' = filename
          /\ out' = [Output("load", "ok")
                       EXCEPT !.loaded = st.loaded, !.skipped = st.skipped]

\* a load that resets the store and the index before it opens the file
loadFromFileClearFirst(filename) ==
  IF ~ is_open(filename)
  THEN /\ out' = Output("load", "SourceUnavailable")
       /\ tree_' = nullptr
       /\ count_' = 0
       /\ index_' = << >>
       /\ UNCHANGED << loaded_, lastFilename_, lines >>
  ELSE \E content \in Files : Finish(filename, content, LoadResult[content])

\* a load that does not reset the store and the index
loadFromFileMerge(filename) ==
  IF ~ is_open(filename)
  THEN /\ out' = Output("load", "SourceUnavailable")
       /\ UNCHANGED << tree_, count_, index_, loaded_, lastFilename_, lines >>
  ELSE \E content \in Files :
         Finish(filename, content,
                LoadLoop([tree |-> tree_, count |-> count_, index |-> index_,
                          loaded |-> 0, skipped |-> 0],
                         content, Len(content)))

loadFromFile(filename) ==
  IF ~ is_open(filename)
  THEN /\ out' = Output("load", "SourceUnavailable")
       /\ UNCHANGED << tree_, count_, index_, loaded_, lastFilename_, lines >>
  ELSE \E content \in Files : Finish(filename, content, LoadResult[content])

\* the lines printCourseList prints: number and title of each course
ListItems(courses) ==
  [i \in 1..Len(courses) |-> << courses[i].number, courses[i].title >>]

printCourseList ==
  /\ IF ~ loaded_
     THEN out' = Output("list", "NotLoaded")
     ELSE LET courses == inOrderImpl(tree_)
          IN  out' = [Output("list", "ok")
                        EXCEPT !.items = ListItems(courses),
                               !.total = Len(courses)]
  /\ UNCHANGED << tree_, count_, index_, loaded_, lastFilename_, lines >>

\* the prerequisite lines printCourseInfo prints for course c
PrereqItems(c) ==
  [i \in 1..Len(c.prereqs) |->
     LET p == c.prereqs[i]
     IN  IF p \in DOMAIN index_
         THEN [number |-> p, found |-> TRUE, title |-> index_[p]]
         ELSE [number |-> p, found |-> FALSE, title |-> << >>]]

\* a describe that tests for the empty number before the loaded flag,
\* and so answers a blank query the same way in both states
printCourseInfoEmptyFirst(rawNumber) ==
  /\ LET number == toUpperInPlace(trimCopy(rawNumber))
         c      == find(tree_, number)
     IN  IF number = << >>
         THEN out' = [Output("info", "EmptyQueryKey") EXCEPT !.raw = rawNumber]
         ELSE IF ~ loaded_
         THEN out' = [Output("info", "NotLoaded") EXCEPT !.raw = rawNumber]
         ELSE IF c = << >>
         THEN out' = [Output("info", "NotFound")
                        EXCEPT !.raw = rawNumber, !.number = number]
         ELSE out' = [Output("info", "ok")
                        EXCEPT !.raw = rawNumber,
                               !.number = c[1].number,
                               !.title = c[1].title,
                               !.items = PrereqItems(c[1])]
  /\ UNCHANGED << tree_, count_, index_, loaded_, lastFilename_, lines >>

\* index_ as it is after index_[p] (which inserts) for each prerequisite of c
RECURSIVE IndexTouched(_, _, _)
IndexTouched(index, prereqs, i) ==
  IF i > Len(prereqs) THEN index
  ELSE IndexTouched(IF prereqs[i] \in DOMAIN index THEN index
                    ELSE index_assign(index, prereqs[i], << >>),
                    prereqs, i + 1)

\* a describe that resolves titles with index_[p] instead of index_.find(p)
printCourseInfoSubscript(rawNumber) ==
  LET number == toUpperInPlace(trimCopy(rawNumber))
      c      == find(tree_, number)
  IN  IF ~ loaded_
      THEN /\ out' = [Output("info", "NotLoaded") EXCEPT !.raw = rawNumber]
           /\ UNCHANGED << tree_, count_, index_, loaded_, lastFilename_, lines >>
      ELSE IF number = << >>
      THEN /\ out' = [Output("info", "EmptyQueryKey") EXCEPT !.raw = rawNumber]
           /\ UNCHANGED << tree_, count_, index_, loaded_, lastFilename_, lines >>
      ELSE IF c = << >>
      THEN /\ out' = [Output("info", "NotFound")
                        EXCEPT !.raw = rawNumber, !.number = number]
           /\ UNCHANGED << tree_, count_, index_, loaded_, lastFilename_, lines >>
      ELSE /\ out' = [Output("info", "ok")
                        EXCEPT !.raw = rawNumber,
                               !.number = c[1].number,
                               !.title = c[1].title,
                               !.items = PrereqItems(c[1])]
           /\ index_' = IndexTouched(index_, c[1].prereqs, 1)
           /\ UNCHANGED << tree_, count_, loaded_, lastFilename_, lines >>

printCourseInfo(rawNumber) ==
  /\ IF ~ loaded_
     THEN out' = [Output("info", "NotLoaded") EXCEPT !.raw = rawNumber]
     ELSE LET number == toUpperInPlace(trimCopy(rawNumber))
              c      == find(tree_, number)
          IN  IF number = << >>
              THEN out' = [Output("info", "EmptyQueryKey")
                             EXCEPT !.raw = rawNumber]
              ELSE IF c = << >>
              THEN out' = [Output("info", "NotFound")
                             EXCEPT !.raw = rawNumber, !.number = number]
              ELSE out' = [Output("info", "ok")
                             EXCEPT !.raw = rawNumber,
                                    !.number = c[1].number,
                                    !.title = c[1].title,
                                    !.items = PrereqItems(c[1])]
  /\ UNCHANGED << tree_, count_, index_, loaded_, lastFilename_, lines >>

Next ==
  \/ \E filename \in Filenames : loadFromFile(filename)
  \/ printCourseList
  \/ \E rawNumber \in RawNumbers : printCourseInfo(rawNumber)

Spec == Init /\ [][Next]_vars

\* ------------------------------------------------- vocabulary of the claims
\* the fields of each line of a file, a blank line having none
RowsOf(content) ==
  [i \in 1..Len(content) |-> splitCSV(trimCopy(content[i]))]

WellFormed(row) == Len(row) >= 2

\* the rows a load accepts, in file order
Accepted(content) == SelectSeq(RowsOf(content), WellFormed)

NormNumber(row) == toUpperInPlace(row[1])

KeysOf(rows) == { NormNumber(rows[i]) : i \in 1..Len(rows) }

\* position of the last row with number k
LastIdx(rows, k) ==
  CHOOSE i \in 1..Len(rows) :
    /\ NormNumber(rows[i]) = k
    /\ \A j \in (i + 1)..Len(rows) : NormNumber(rows[j]) # k

\* the courses held by the nodes of a tree
RECURSIVE Stored(_)
Stored(n) ==
  IF n = nullptr THEN {}
  ELSE Stored(n[1]) \cup { n[2] } \cup Stored(n[3])

\* the tree with each node reduced to its number: where every entry sits
RECURSIVE Shape(_)
Shape(n) ==
  IF n = nullptr THEN nullptr
  ELSE << Shape(n[1]), n[2].number, Shape(n[3]) >>

Ascending(numbers) ==
  \A i \in 1..(Len(numbers) - 1) : StrLess(numbers[i], numbers[i + 1])

Normalized(s) == s = toUpperInPlace(trimCopy(s))

\* ------------------------------------------------------------------ claims

\* C1: in every state the in-order traversal of the store yields strictly
\* ascending course numbers, and so does every list that listAll prints,
\* whatever the order and the duplicates of the rows that were loaded.
C1_ListAscending ==
  /\ Ascending([i \in 1..Len(inOrderImpl(tree_)) |->
                  inOrderImpl(tree_)[i].number])
  /\ (out.op = "list" /\ out.status = "ok") =>
       Ascending([i \in 1..Len(out.items) |-> out.items[i][1]])

\* a list of two courses whose rows came in descending order in the file
C1_Witness ==
  /\ out.op = "list" /\ out.status = "ok" /\ Len(out.items) = 2
  /\ Len(Accepted(lines)) = 2
  /\ StrLess(NormNumber(Accepted(lines)[2]), NormNumber(Accepted(lines)[1]))

\* C2: once a load has failed for want of valid records, listAll and
\* describe answer "not loaded".
C2_FailedLoadUnloads ==
  [][(out.op = "load" /\ out.status = "NoValidRecords"
        /\ out'.op \in {"list", "info"})
       => out'.status = "NotLoaded"]_vars

\* C3 as stated: every failed load leaves the store and the index empty.
C3_FailedLoadEmpties ==
  (out.op = "load" /\ out.status \in {"SourceUnavailable", "NoValidRecords"})
    => (tree_ = nullptr /\ count_ = 0 /\ DOMAIN index_ = {})

\* C3 amended: a load that fails with NoValidRecords leaves the store and the
\* index empty; a load that fails with SourceUnavailable leaves the store,
\* the index and the loaded flag as they were.
C3_FailedLoadEffect ==
  [][/\ (out'.op = "load" /\ out'.status = "NoValidRecords")
          => (tree_' = nullptr /\ count_' = 0 /\ DOMAIN index_' = {})
     /\ (out'.op = "load" /\ out'.status = "SourceUnavailable")
          => UNCHANGED << tree_, count_, index_, loaded_, lastFilename_ >>
    ]_vars

\* a load that could not open its file, with the earlier data still there
C3_Witness ==
  /\ out.op = "load" /\ out.status = "SourceUnavailable"
  /\ tree_ # nullptr /\ DOMAIN index_ # {}

C5_FindExact ==
  (out.op = "info" /\ out.status # "NotLoaded"
     /\ toUpperInPlace(trimCopy(out.raw)) # << >>)
    => LET q    == toUpperInPlace(trimCopy(out.raw))
           rows == Accepted(lines)
       IN  /\ out.status \in {"ok", "NotFound"}
           /\ out.status = "ok" <=> q \in KeysOf(rows)
           /\ out.number = q
           /\ out.status = "ok" => out.title = rows[LastIdx(rows, q)][2]

\* a lower-case, padded query finds a course that is not at the root
C5_Witness ==
  /\ out.op = "info" /\ out.status = "ok"
  /\ out.raw # out.number
  /\ tree_ # nullptr /\ tree_[2].number # out.number

\* C6: every course in the store has a non-empty, normalized number.
C6_NumberNonEmpty ==
  \A c \in Stored(tree_) : c.number # << >> /\ Normalized(c.number)

\* C7: the store holds exactly one entry per distinct normalized number of
\* the accepted rows of the latest load and nothing else; size() is the
\* number of those numbers; the load reports every accepted row as loaded
\* and every other non-blank row as skipped.
C7_ExactlyTheRows ==
  LET rows == Accepted(lines)
      all  == RowsOf(lines)
  IN  /\ { c.number : c \in Stored(tree_) } = KeysOf(rows)
      /\ Cardinality(Stored(tree_)) = Cardinality(KeysOf(rows))
      /\ count_ = Cardinality(KeysOf(rows))
      /\ Len(inOrderImpl(tree_)) = count_
      /\ count_ <= Len(rows)
      /\ (out.op = "load" /\ out.status = "ok") =>
           /\ out.loaded = Len(rows)
           /\ out.skipped =
                Cardinality({ i \in 1..Len(all) : Len(all[i]) = 1 })

\* a successful load of one accepted row and one skipped row
C7_Witness ==
  /\ out.op = "load" /\ out.status = "ok"
  /\ out.skipped = 1 /\ out.loaded = 1 /\ count_ = 1

\* C8: describe answers NotLoaded when the catalog is not loaded, otherwise
\* EmptyQueryKey when the trimmed query is empty, otherwise NotFound or the
\* course; a blank query is never answered from the store.
C8_ErrorPrecedence ==
  (out.op = "info") =>
    IF ~ loaded_ THEN out.status = "NotLoaded"
    ELSE IF trimCopy(out.raw) = << >> THEN out.status = "EmptyQueryKey"
    ELSE out.status \in {"NotFound", "ok"}

\* a blank query refused while the store holds a course with an empty number
C8_Witness ==
  /\ out.op = "info" /\ out.status = "EmptyQueryKey" /\ out.raw # << >>
  /\ \E c \in Stored(tree_) : c.number = << >>

C10_QueriesReadOnly ==
  [][(out'.op \in {"list", "info"})
       => /\ UNCHANGED << tree_, count_, index_, loaded_, lastFilename_ >>
          /\ (out.op = "list" /\ out'.op = "list") => out' = out]_vars

\* a course with an unresolved prerequisite has been described
C10_Witness ==
  /\ out.op = "info" /\ out.status = "ok"
  /\ \E i \in 1..Len(out.items) : ~ out.items[i].found

====
